---------------------------- MODULE Spec2Model ----------------------------
(***************************************************************************)
(* Playback continuation state machine of music-bot.py (class MusicBot).   *)
(*                                                                         *)
(* One atomic step of the model is the code a coroutine runs between two   *)
(* suspension points (await) of the single-threaded asyncio loop.  A       *)
(* handler that is suspended is a record in tasks[g] holding its position  *)
(* (pc) and the local variables it carries across the await.               *)
(*                                                                         *)
(* A track is identified with its path ./dl/<guild>/<id>.<ext>: the info   *)
(* dict is never read by the continuation logic.                           *)
(***************************************************************************)
EXTENDS Integers, Sequences, FiniteSets, Bags, TLC

\* ------------------------------------------------------------------ bounds
MaxQueue == 3      \* longest queue a play command is issued against
NumPaths == 2      \* distinct downloadable tracks per guild
MaxTasks == 2      \* command handlers / callbacks in flight when a command is issued
MaxOps   == 5      \* commands and outside events in one run
NumMsgs  == 2      \* distinct command-message identifiers
MaxDeliveries == 3 \* deliveries of one command message by the framework

GuildIds == {1, 2}
Paths    == 1..NumPaths
StaleIds == 1..(MaxTasks + 2)
MsgIds   == 1..NumMsgs

VARIABLES
  queues,            \* self.queues: per guild [on, queue, loop, volume]; on = FALSE:
                     \* no entry; volume in hundredths (100 is the float 1.0)
  stale,             \* list objects no longer in self.queues but still held by a task
  skip_in_progress,  \* self.skip_in_progress
  voice,             \* the guild has a connected voice client
  player,            \* the voice client's audio player: [on, path, paused, sk]
  files,             \* files present under ./dl/<guild>/
  dirs,              \* ./dl/<guild>/ exists
  tasks,             \* suspended coroutines, a bag of task records per guild
  vsu,               \* a voice-state update "bot left its channel" is in flight
  purge,             \* a _delayed_directory_cleanup task is sleeping
  ops,               \* commands and outside events so far
  active_commands,   \* self.active_commands: message ids being processed
  delivered,         \* history: deliveries of each command message so far
  bodies,            \* history: times the handler body was entered, per message
  inflight,          \* wrappers suspended inside the handler body, per message
  unlink,            \* one call of _try_remove_file and the directory it works on
  hist               \* history: tracks enqueued and tracks started, in order

dedup == <<active_commands, delivered, bodies, inflight>>
vars == <<queues, stale, skip_in_progress, voice, player,
          files, dirs, tasks, vsu, purge, ops, dedup, unlink, hist>>

\* ----------------------------------------------------------------- helpers
NoSession == [on |-> FALSE, queue |-> <<>>, loop |-> FALSE, volume |-> 100]
NoPlayer  == [on |-> FALSE, path |-> 0, paused |-> FALSE, sk |-> FALSE]

Elems(s) == {s[i] : i \in 1..Len(s)}

RECURSIVE SumOver(_, _)
SumOver(B, S) ==
  IF S = {} THEN 0
  ELSE LET x == CHOOSE y \in S : TRUE IN B[x] + SumOver(B, S \ {x})

\* The bag B with the function f applied to each of its elements.
MapBag(B, f) ==
  LET S == {f[r] : r \in DOMAIN B}
  IN  [x \in S |-> SumOver(B, {r \in DOMAIN B : f[r] = x})]

Add(B, t) == B (+) SetToBag({t})
Del(B, t) == B (-) SetToBag({t})
Size(B)   == BagCardinality(B)

\* A task record.  lst: the list object held in track_queue (-1 none, 0 the list
\* of self.queues[g], k > 0 the detached list stale[g][k]).  live: the voice
\* client held in connection / voice_client is the guild's connected one.
\* History fields, read only by the properties: all (skip: the command asked
\* for every track), cause (after: what ended the player), trk (after: the path
\* the player was playing), d (after: recursive calls so far), n0 (after: queue
\* length when the outermost call read the queue), q0 and n (after, fired by
\* a partial skip: the queue that skip found and the number of tracks it popped;
\* skip, taking the branch of line 364: the queue it found there),
\* err (after: an exception was raised in this callback), gone (after: the
\* registry entry was popped while this callback was pending).  han: the
\* continuation awaits the disconnect() of line 906, inside the outer handler.
Task(k, pc) ==
  [k |-> k, pc |-> pc, n |-> 0, lst |-> -1, live |-> FALSE, path |-> 0,
   rm |-> {}, all |-> FALSE, cause |-> "none", trk |-> 0, d |-> 0, n0 |-> 0,
   q0 |-> <<>>, err |-> FALSE, han |-> FALSE, gone |-> FALSE]

\* The continuation scheduled by _after_track when the player of the connected
\* voice client ends (run_coroutine_threadsafe, then the sleep of line 806).
AfterTask(live, cause, trk) ==
  [Task("after", "a_start") EXCEPT !.live = live, !.cause = cause, !.trk = trk]

ListOf(g, l) == IF l = 0 THEN queues[g].queue ELSE stale[g][l]

\* Lists still held by some task of Tk; the others are garbage.
HeldBy(Tk) == {r.lst : r \in DOMAIN Tk} \ {-1, 0}
Collect(St, Tk) == [k \in StaleIds |-> IF k \in HeldBy(Tk) THEN St[k] ELSE <<>>]

\* connection.is_connected() turns False for every holder of the voice client.
Dead(Tk) == MapBag(Tk, [r \in DOMAIN Tk |-> [r EXCEPT !.live = FALSE]])

\* self.queues.pop(server_id): the list object leaves the registry; tasks that
\* still hold it keep it as a detached list.
Holds0(Tk)  == \E r \in DOMAIN Tk : r.lst = 0
FreeSlot(Tk) == CHOOSE k \in StaleIds :
                  k \notin HeldBy(Tk) /\ \A j \in 1..(k - 1) : j \in HeldBy(Tk)
Detach(Tk) ==
  IF Holds0(Tk)
  THEN MapBag(Tk, [r \in DOMAIN Tk |->
                     IF r.lst = 0 THEN [r EXCEPT !.lst = FreeSlot(Tk)] ELSE r])
  ELSE Tk
Detached(St, q, Tk) == IF Holds0(Tk) THEN [St EXCEPT ![FreeSlot(Tk)] = q] ELSE St

\* Write back guild g's registry entry, detached lists and suspended tasks.
Put(g, Q, St, Tk) ==
  /\ queues' = [queues EXCEPT ![g] = Q]
  /\ tasks'  = [tasks EXCEPT ![g] = Tk]
  /\ stale'  = [stale EXCEPT ![g] = Collect(St, Tk)]

\* History: the callbacks of Tk outlive the session they were scheduled in.
Outlive(Tk) ==
  MapBag(Tk, [r \in DOMAIN Tk |->
                IF r.k = "after" THEN [r EXCEPT !.gone = TRUE] ELSE r])

\* The same, after self.queues.pop(server_id, None) on an entry whose list is q.
PutPop(g, Q, St, Tk) ==
  IF Q.on THEN Put(g, NoSession, Detached(St, Q.queue, Tk), Outlive(Detach(Tk)))
  ELSE Put(g, Q, St, Tk)

\* voice_client.stop(): the player thread ends and calls _after_track.
Stopped(g, Tk, cause) ==
  IF player[g].on THEN Add(Tk, AfterTask(TRUE, cause, player[g].path)) ELSE Tk

\* VoiceClient.disconnect() on the connected client: stop(), the connection is
\* gone for every holder, and the gateway will report that the bot left.
Disconnected(g, Tk) ==
  LET D == Dead(Tk)
  IN  IF player[g].on THEN Add(D, AfterTask(FALSE, "halt", player[g].path)) ELSE D
Disconnect(g) ==
  /\ voice'  = [voice EXCEPT ![g] = FALSE]
  /\ player' = [player EXCEPT ![g] = NoPlayer]
  /\ vsu'    = [vsu EXCEPT ![g] = TRUE]

\* _try_remove_file(path) for each path of rm: the file is gone afterwards.
Removed(g, rm) == [files EXCEPT ![g] = @ \ rm]

\* History, kept in the runs that ask for it: the paths of e are appended by
\* line 487, those of s are handed to connection.play and started.
NoHist == [on |-> FALSE, enq |-> <<>>, started |-> <<>>]
Log(e, s) ==
  hist' = IF hist.on THEN [hist EXCEPT !.enq = @ \o e, !.started = @ \o s]
          ELSE hist

\* A discard that empties the set; C27 does not survive it.
DiscardAll(g) == {}

\* Lines 780, 811, 838: self.skip_in_progress.discard(server_id).
Discard(g) == skip_in_progress \ {g}

Quiet(g) == Size(tasks[g]) = 0 /\ ~vsu[g] /\ ~purge[g]
\* A command or an outside event arrives.
Arrives == ops < MaxOps /\ ops' = ops + 1
CanIssue(g) == Arrives /\ Size(tasks[g]) < MaxTasks

\* ---------------------------------------------------------------- handle_play
\* connection.play(audio, after=...): ClientException when audio is already
\* playing; a paused player is replaced.  TRUE when playback starts.
CanPlay(g) == ~(player[g].on /\ ~player[g].paused)
Playing(p) == [on |-> TRUE, path |-> p, paused |-> FALSE, sk |-> FALSE]

PlaysInFlight(g) == SumOver(tasks[g], {r \in DOMAIN tasks[g] : r.k = "play"})

\* .play <query>: the download of lines 447-468 succeeds and writes the file.
PlayStart(g, p) ==
  /\ CanIssue(g)
  /\ Len(queues[g].queue) + PlaysInFlight(g) < MaxQueue
  /\ files' = [files EXCEPT ![g] = @ \cup {p}]
  /\ dirs'  = [dirs EXCEPT ![g] = TRUE]
  /\ tasks' = [tasks EXCEPT ![g] = Add(@, [Task("play", "p_ins") EXCEPT !.path = p])]
  /\ UNCHANGED <<queues, stale, skip_in_progress, voice, player,
                 vsu, purge>>
  /\ UNCHANGED <<dedup, unlink, hist>>

\* .play <query>: extract_info finds no entry (lines 461-464), or extract_info
\* or download raises (lines 460, 468, 516-518); the handler awaits the edit of
\* its status message.
PlayNoResult(g) ==
  /\ CanIssue(g)
  /\ dirs'  = [dirs EXCEPT ![g] = TRUE]
  /\ tasks' = [tasks EXCEPT ![g] = Add(@, Task("play", "p_fail"))]
  /\ UNCHANGED <<queues, stale, skip_in_progress, voice, player,
                 files, vsu, purge>>
  /\ UNCHANGED <<dedup, unlink, hist>>

\* Lines 464 and 518-521, after the await of status_message.edit.
PlayFailed(g, t) ==
  /\ t \in DOMAIN tasks[g] /\ t.pc = "p_fail"
  /\ tasks' = [tasks EXCEPT ![g] = Del(@, t)]
  /\ UNCHANGED <<ops, queues, stale, skip_in_progress, voice, player,
                 files, dirs, vsu, purge>>
  /\ UNCHANGED <<dedup, unlink, hist>>

\* .play <query>: download returns, but no file is at the path of line 472.
PlayNoFile(g, p) ==
  /\ CanIssue(g)
  /\ p \notin files[g]
  /\ dirs'  = [dirs EXCEPT ![g] = TRUE]
  /\ tasks' = [tasks EXCEPT ![g] = Add(@, [Task("play", "p_ins") EXCEPT !.path = p])]
  /\ UNCHANGED <<queues, stale, skip_in_progress, voice, player,
                 files, vsu, purge>>
  /\ UNCHANGED <<dedup, unlink, hist>>

\* A check that takes every download to have written its file; C18 does not
\* survive it.
DownloadedAlways(g, p) == TRUE

\* Line 475: os.path.exists(path).
Downloaded(g, p) == p \in files[g]

\* An enqueue that takes every track for the only one; C19 does not survive it.
OnlyTrackAny(q) == Len(q) >= 1

\* Line 490: len(track_queue) == 1.
OnlyTrack(q) == Len(q) = 1

\* Lines 472-495 and 501-514, after the await of status_message.edit.
PlayInsert(g, t) ==
  /\ t \in DOMAIN tasks[g] /\ t.pc = "p_ins"
  /\ LET Rest == Del(tasks[g], t)
         Q0   == IF queues[g].on THEN queues[g]
                 ELSE [on |-> TRUE, queue |-> <<>>, loop |-> FALSE, volume |-> 100]
         Q1   == [Q0 EXCEPT !.queue = Append(@, t.path)]
     IN  IF ~Downloaded(g, t.path)
         THEN \* lines 475-477
              /\ Put(g, queues[g], stale[g], Rest)
              /\ UNCHANGED player
         ELSE IF ~OnlyTrack(Q1.queue)
         THEN /\ Put(g, Q1, stale[g], Rest)
              /\ UNCHANGED player
         ELSE IF voice[g]
         THEN /\ Put(g, Q1, stale[g], Rest)
              /\ player' = IF CanPlay(g) THEN [player EXCEPT ![g] = Playing(t.path)]
                            ELSE player
         ELSE /\ Put(g, Q1, stale[g], Add(Rest, [t EXCEPT !.pc = "p_conn"]))
              /\ UNCHANGED player
  /\ UNCHANGED <<ops, skip_in_progress, voice, files, dirs, vsu, purge>>
  /\ UNCHANGED <<dedup, unlink>>
  /\ Log(IF Downloaded(g, t.path) THEN <<t.path>> ELSE <<>>,
         IF player'[g] # player[g] THEN <<t.path>> ELSE <<>>)

\* Line 495: channel.connect() returns a connected voice client.
PlayConnected(g, t) ==
  /\ t \in DOMAIN tasks[g] /\ t.pc = "p_conn"
  /\ ~voice[g] /\ ~vsu[g]
  /\ voice' = [voice EXCEPT ![g] = TRUE]
  /\ tasks' = [tasks EXCEPT ![g] =
                  Add(Del(@, t), [t EXCEPT !.pc = "p_wait", !.live = TRUE])]
  /\ UNCHANGED <<ops, queues, stale, skip_in_progress, player, files,
                 dirs, vsu, purge>>
  /\ UNCHANGED <<dedup, unlink, hist>>

\* Lines 497-514: channel.connect() raises (timeout, or the guild already has a
\* voice client); the handler falls back to the voice client it can find.
PlayConnectFailed(g, t) ==
  /\ t \in DOMAIN tasks[g] /\ t.pc = "p_conn"
  /\ tasks' = [tasks EXCEPT ![g] = Del(@, t)]
  /\ player' = IF voice[g] /\ CanPlay(g)
                THEN [player EXCEPT ![g] = Playing(t.path)] ELSE player
  /\ UNCHANGED <<ops, queues, stale, skip_in_progress, voice, files,
                 dirs, vsu, purge>>
  /\ UNCHANGED <<dedup, unlink>>
  /\ Log(<<>>, IF voice[g] /\ CanPlay(g) THEN <<t.path>> ELSE <<>>)

\* Lines 501-514 after the sleep of line 496.
PlayWait(g, t) ==
  /\ t \in DOMAIN tasks[g] /\ t.pc = "p_wait"
  /\ tasks' = [tasks EXCEPT ![g] = Del(@, t)]
  /\ player' = IF t.live /\ CanPlay(g)
                THEN [player EXCEPT ![g] = Playing(t.path)] ELSE player
  /\ UNCHANGED <<ops, queues, stale, skip_in_progress, voice, files,
                 dirs, vsu, purge>>
  /\ UNCHANGED <<dedup, unlink>>
  /\ Log(<<>>, IF t.live /\ CanPlay(g) THEN <<t.path>> ELSE <<>>)

\* ---------------------------------------------------------------- handle_skip
\* Lines 338-347: the number of tracks to skip.
ClampSkips(n, len) == IF n >= len THEN len ELSE n

\* Lines 392-396: the queue after n pops from the front, and the popped paths
\* that no entry still queued at the moment of the pop shares.
SkipPop(q, n)   == SubSeq(q, n + 1, Len(q))
\* A skip that deletes the file of every popped entry; C23 does not survive it.
SkipFilesAll(q, n) == {q[i] : i \in 1..n}
SkipFiles(q, n) == {q[i] : i \in {j \in 1..n : q[j] \notin Elems(SubSeq(q, j + 1, Len(q)))}}

\* A full-stop skip that removes no file; C24 does not survive it.
FilesToRemoveNone(q) == {}

\* Line 371: the files of every entry of the queue.
FilesToRemove(q) == Elems(q)

\* .skip [n|all], lines 320-353, up to the await of ctx.send(msg).
SkipStart(g, n) ==
  /\ CanIssue(g)
  /\ queues[g].on /\ queues[g].queue # <<>>
  /\ tasks' = [tasks EXCEPT ![g] =
       Add(@, [Task("skip", "s_sent") EXCEPT
                 !.n = ClampSkips(n, Len(queues[g].queue)), !.lst = 0,
                 !.all = (n >= Len(queues[g].queue))])]
  /\ UNCHANGED <<queues, stale, skip_in_progress, voice, player,
                 files, dirs, vsu, purge>>
  /\ UNCHANGED <<dedup, unlink, hist>>

\* The player as a skip handler that has passed line 361 leaves it.
Marked(g) == IF player[g].on THEN [player[g] EXCEPT !.sk = TRUE] ELSE player[g]

\* History: a continuation still in the sleep of line 806 when a skip handler
\* passes line 361 is no longer the continuation of a track nobody skipped.
Noted(Tk) ==
  MapBag(Tk, [r \in DOMAIN Tk |->
                IF r.k = "after" /\ r.pc = "a_start" /\ r.cause = "natural"
                THEN [r EXCEPT !.cause = "skipped"] ELSE r])

\* Lines 356-415, after the await of ctx.send(msg).
SkipSent(g, t) ==
  /\ t \in DOMAIN tasks[g] /\ t.pc = "s_sent"
  /\ LET Here == Del(tasks[g], t)
         Rest == IF voice[g] THEN Noted(Here) ELSE Here
         L    == ListOf(g, t.lst)
         isPlaying == player[g].on /\ ~player[g].paused
         SetL(v, Tk) == IF t.lst = 0
                        THEN Put(g, [queues[g] EXCEPT !.queue = v], stale[g], Tk)
                        ELSE Put(g, queues[g], [stale[g] EXCEPT ![t.lst] = v], Tk)
     IN  IF ~voice[g]
         THEN \* line 357: no voice client
              /\ Put(g, queues[g], stale[g], Rest)
              /\ UNCHANGED <<skip_in_progress, voice, player, files, vsu>>
         ELSE
           /\ skip_in_progress' = skip_in_progress \cup {g}
           /\ IF t.n >= Len(L)
              THEN IF isPlaying
                   THEN \* lines 366-368: stop, then sleep
                        /\ Put(g, queues[g], stale[g],
                               Add(Stopped(g, Rest, "halt"),
                                   [t EXCEPT !.pc = "s_slept", !.live = TRUE,
                                             !.q0 = L]))
                        /\ player' = [player EXCEPT ![g] = NoPlayer]
                        /\ UNCHANGED <<voice, files, vsu>>
                   ELSE \* lines 371-377: clear the queue, disconnect
                        /\ SetL(<<>>, Add(Disconnected(g, Rest),
                                   [t EXCEPT !.pc = "s_disc", !.lst = -1,
                                             !.rm = FilesToRemove(L), !.q0 = L]))
                        /\ Disconnect(g)
                        /\ UNCHANGED files
              ELSE \* lines 390-415: a partial skip
                   /\ SetL(SkipPop(L, t.n),
                           IF isPlaying
                           THEN Add(Rest, [AfterTask(TRUE, "skip", player[g].path)
                                             EXCEPT !.q0 = L, !.n = t.n])
                           ELSE Rest)
                   /\ player' = [player EXCEPT ![g] =
                                   IF isPlaying THEN NoPlayer ELSE Marked(g)]
                   /\ files' = Removed(g, SkipFiles(L, t.n))
                   /\ UNCHANGED <<voice, vsu>>
  /\ UNCHANGED <<ops, dirs, purge>>
  /\ UNCHANGED <<dedup, unlink, hist>>

\* Lines 371-377, after the sleep of line 368.  disconnect() returns at once,
\* without suspending, on a voice client that is no longer connected.
SkipSlept(g, t) ==
  /\ t \in DOMAIN tasks[g] /\ t.pc = "s_slept"
  /\ LET Rest == Del(tasks[g], t)
         L    == ListOf(g, t.lst)
         Q    == IF t.lst = 0 THEN [queues[g] EXCEPT !.queue = <<>>] ELSE queues[g]
         St   == IF t.lst = 0 THEN stale[g] ELSE [stale[g] EXCEPT ![t.lst] = <<>>]
     IN  IF t.live
         THEN /\ Put(g, Q, St, Add(Disconnected(g, Rest),
                                   [t EXCEPT !.pc = "s_disc", !.lst = -1,
                                             !.rm = FilesToRemove(L)]))
              /\ Disconnect(g)
              /\ UNCHANGED files
         ELSE /\ PutPop(g, Q, St, Rest)
              /\ files' = Removed(g, FilesToRemove(L))
              /\ UNCHANGED <<voice, player, vsu>>
  /\ UNCHANGED <<ops, skip_in_progress, dirs, purge>>
  /\ UNCHANGED <<dedup, unlink, hist>>

\* Lines 380-385, after the await of voice_client.disconnect().
SkipDisc(g, t) ==
  /\ t \in DOMAIN tasks[g] /\ t.pc = "s_disc"
  /\ PutPop(g, queues[g], stale[g], Del(tasks[g], t))
  /\ files' = Removed(g, t.rm)
  /\ UNCHANGED <<ops, skip_in_progress, voice, player, dirs, vsu, purge>>
  /\ UNCHANGED <<dedup, unlink, hist>>

\* -------------------------------------------------------- _after_track_async
\* A continuation that ignores the skip marker; C2 does not survive it.
PopsHeadAlways(is_skip, loop_enabled) == ~loop_enabled

\* A continuation that pops also when loop is enabled; C13 does not survive it.
PopsHeadLoop(is_skip, loop_enabled) == ~is_skip

\* Lines 835-843: whether the continuation pops the head of the queue.
PopsHead(is_skip, loop_enabled) == ~is_skip /\ ~loop_enabled

\* A recovery that keeps the entry whose file is missing; C6 does not survive it.
DropMissingNot(q) == q

\* Line 866: the head whose file is missing is dropped from the queue.
DropMissing(q) == Tail(q)

\* Line 857: whether the file of the track that was the head is removed.
RemovesLast(loop_enabled, last_path, q) == ~loop_enabled /\ last_path \notin Elems(q)

\* A continuation that never sees the session as absent; C15 does not survive it.
AbsentNever(g) == FALSE

\* Line 809: server_id not in self.queues.
Absent(g) == ~queues[g].on

\* A continuation that takes every connection for a valid one; C21 does not
\* survive it.
InvalidNever(t) == FALSE

\* Line 815: the voice client the callback was registered with is gone or is
\* not connected.
Invalid(t) == ~t.live

\* Lines 808-878, after the sleep of line 806.
AfterStart(g, t) ==
  /\ t \in DOMAIN tasks[g] /\ t.pc = "a_start"
  /\ LET Rest == Del(tasks[g], t)
         q    == queues[g].queue
         loop == queues[g].loop
         is_skip == g \in skip_in_progress
         q1   == IF PopsHead(is_skip, loop) THEN Tail(q) ELSE q
         last == Head(q)
         f1   == IF RemovesLast(loop, last, q1) THEN files[g] \ {last} ELSE files[g]
         q2   == DropMissing(q1)
         Q(v) == [queues[g] EXCEPT !.queue = v]
         u    == IF t.d = 0 THEN [t EXCEPT !.n0 = Len(q)] ELSE t
     IN  IF Absent(g)
         THEN \* lines 809-812
              /\ Put(g, queues[g], stale[g], Rest)
              /\ skip_in_progress' = Discard(g)
              /\ UNCHANGED <<voice, player, files, vsu>>
         ELSE IF Invalid(t)
         THEN \* lines 815-818
              /\ PutPop(g, queues[g], stale[g], Rest)
              /\ UNCHANGED <<skip_in_progress, voice, player, files, vsu>>
         ELSE IF q = <<>>
         THEN \* lines 823-826
              /\ Put(g, queues[g], stale[g],
                     Add(Disconnected(g, Rest), [t EXCEPT !.pc = "a_disc", !.live = FALSE]))
              /\ Disconnect(g)
              /\ UNCHANGED <<skip_in_progress, files>>
         ELSE
           /\ skip_in_progress' = Discard(g)
           /\ IF q1 = <<>>
              THEN \* lines 846-848
                   /\ Put(g, Q(q1), stale[g],
                          Add(Disconnected(g, Rest),
                              [u EXCEPT !.pc = "a_disc", !.live = FALSE,
                                        !.rm = IF loop THEN {} ELSE {last}]))
                   /\ Disconnect(g)
                   /\ UNCHANGED files
              ELSE IF Head(q1) \notin f1
              THEN \* lines 864-875: the file of the new head is missing
                   IF q2 # <<>>
                   THEN /\ Put(g, Q(q2), stale[g],
                               Add(Rest, [u EXCEPT !.d = @ + 1]))
                        /\ files' = [files EXCEPT ![g] = f1]
                        /\ UNCHANGED <<voice, player, vsu>>
                   ELSE /\ Put(g, Q(q2), stale[g],
                               Add(Disconnected(g, Rest),
                                   [u EXCEPT !.pc = "a_disc", !.live = FALSE]))
                        /\ Disconnect(g)
                        /\ files' = [files EXCEPT ![g] = f1]
              ELSE \* lines 861, 878: sleep before starting the new head
                   /\ Put(g, Q(q1), stale[g],
                          Add(Rest, [u EXCEPT !.pc = "a_play", !.lst = 0,
                                              !.path = Head(q1)]))
                   /\ files' = [files EXCEPT ![g] = f1]
                   /\ UNCHANGED <<voice, player, vsu>>
  /\ UNCHANGED <<ops, dirs, purge>>
  /\ UNCHANGED <<dedup, unlink, hist>>

\* Lines 827-828, 849-854, 873-875, 898-899 and 907: after the await of
\* connection.disconnect().
AfterDisc(g, t) ==
  /\ t \in DOMAIN tasks[g] /\ t.pc = "a_disc"
  /\ PutPop(g, queues[g], stale[g], Del(tasks[g], t))
  /\ files' = Removed(g, t.rm)
  /\ UNCHANGED <<ops, skip_in_progress, voice, player, dirs, vsu, purge>>
  /\ UNCHANGED <<dedup, unlink, hist>>

\* A handler that swallows every failure of disconnect without popping the
\* session; C16 does not survive it.
AfterDiscFailedKeeps(g, t) ==
  /\ t \in DOMAIN tasks[g] /\ t.pc = "a_disc"
  /\ Put(g, queues[g], stale[g], Del(tasks[g], t))
  /\ UNCHANGED <<ops, skip_in_progress, voice, player, files, dirs, vsu, purge>>
  /\ UNCHANGED <<dedup, unlink, hist>>

\* connection.disconnect() raises after it has stopped the player and marked
\* the client disconnected.  Raised at lines 826, 848, 873 or 898 the exception
\* reaches the handler of lines 901-909, which finds the client disconnected
\* and pops the session (the removal of line 853 is skipped); raised at line
\* 906 it is swallowed by line 908 and the pop of line 907 is skipped.
AfterDiscFailed(g, t) ==
  /\ t \in DOMAIN tasks[g] /\ t.pc = "a_disc"
  /\ IF t.han
     THEN Put(g, queues[g], stale[g], Del(tasks[g], t))
     ELSE PutPop(g, queues[g], stale[g], Del(tasks[g], t))
  /\ UNCHANGED <<ops, skip_in_progress, voice, player, files, dirs, vsu, purge>>
  /\ UNCHANGED <<dedup, unlink, hist>>

\* Lines 891-909: the audio source or connection.play raised.
Recover(g, t) ==
  LET Rest == Del(tasks[g], t)
      L    == ListOf(g, t.lst)
      Gone == [t EXCEPT !.pc = "a_disc", !.lst = -1, !.live = FALSE, !.path = 0,
                        !.err = TRUE]
      SetL(v, Tk) == IF t.lst = 0
                     THEN Put(g, [queues[g] EXCEPT !.queue = v], stale[g], Tk)
                     ELSE Put(g, queues[g], [stale[g] EXCEPT ![t.lst] = v], Tk)
  IN  IF L = <<>>
      THEN \* line 894 raises IndexError: lines 901-909
           IF t.live
           THEN /\ Put(g, queues[g], stale[g],
                       Add(Disconnected(g, Rest), [Gone EXCEPT !.han = TRUE]))
                /\ Disconnect(g)
           ELSE /\ PutPop(g, queues[g], stale[g], Rest)
                /\ UNCHANGED <<voice, player, vsu>>
      ELSE IF Tail(L) # <<>>
      THEN \* lines 894-896
           /\ SetL(Tail(L), Add(Rest, [t EXCEPT !.pc = "a_start", !.lst = -1,
                                    !.path = 0, !.d = @ + 1, !.err = TRUE]))
           /\ UNCHANGED <<voice, player, vsu>>
      ELSE \* lines 894, 898-899
           IF t.live
           THEN /\ SetL(Tail(L), Add(Disconnected(g, Rest), Gone))
                /\ Disconnect(g)
           ELSE /\ IF t.lst = 0
                   THEN PutPop(g, [queues[g] EXCEPT !.queue = Tail(L)], stale[g], Rest)
                   ELSE PutPop(g, queues[g], stale[g], Rest)
                /\ UNCHANGED <<voice, player, vsu>>

\* Lines 881-909, after the sleep of line 878.
AfterPlay(g, t) ==
  /\ t \in DOMAIN tasks[g] /\ t.pc = "a_play"
  /\ IF t.live /\ CanPlay(g)
     THEN \* lines 882-890
          /\ Put(g, queues[g], stale[g], Del(tasks[g], t))
          /\ player' = [player EXCEPT ![g] = Playing(t.path)]
          /\ UNCHANGED <<voice, vsu>>
     ELSE Recover(g, t)
  /\ UNCHANGED <<ops, skip_in_progress, files, dirs, purge>>
  /\ UNCHANGED <<dedup, unlink>>
  /\ Log(<<>>, IF t.live /\ CanPlay(g) THEN <<t.path>> ELSE <<>>)

\* Lines 882-885 and 891-909, after the sleep of line 878: FFmpegOpusAudio
\* raises (ffmpeg cannot be started) on a client that could have played.
AudioFails(g, t) ==
  /\ t \in DOMAIN tasks[g] /\ t.pc = "a_play"
  /\ t.live /\ CanPlay(g)
  /\ Recover(g, t)
  /\ UNCHANGED <<ops, skip_in_progress, files, dirs, purge>>
  /\ UNCHANGED <<dedup, unlink, hist>>

\* ------------------------------------------------- commands without an await
\* handle_pause, lines 593-602.
Pause(g) ==
  /\ CanIssue(g)
  /\ voice[g] /\ player[g].on /\ ~player[g].paused
  /\ player' = [player EXCEPT ![g].paused = TRUE]
  /\ UNCHANGED <<queues, stale, skip_in_progress, voice, files,
                 dirs, tasks, vsu, purge>>
  /\ UNCHANGED <<dedup, unlink, hist>>

\* handle_resume, lines 610-619, and handle_play without a query, lines 425-427.
Resume(g) ==
  /\ CanIssue(g)
  /\ voice[g] /\ player[g].on /\ player[g].paused
  /\ player' = [player EXCEPT ![g].paused = FALSE]
  /\ UNCHANGED <<queues, stale, skip_in_progress, voice, files,
                 dirs, tasks, vsu, purge>>
  /\ UNCHANGED <<dedup, unlink, hist>>

\* handle_loop, lines 528-538.
Loop(g) ==
  /\ CanIssue(g)
  /\ queues[g].on /\ queues[g].queue # <<>>
  /\ queues' = [queues EXCEPT ![g].loop = ~@]
  /\ UNCHANGED <<stale, skip_in_progress, voice, player, files,
                 dirs, tasks, vsu, purge>>
  /\ UNCHANGED <<dedup, unlink, hist>>

\* ------------------------------------------------------------- handle_volume
\* The argument of .volume is a string, a sequence of characters.
DigitChars == <<"0", "1", "2", "3", "4", "5", "6", "7", "8", "9">>
IsDigit(c) == \E d \in 1..10 : DigitChars[d] = c
DigitOf(c) == (CHOOSE d \in 1..10 : DigitChars[d] = c) - 1

\* The decimal numeral a user types for the integer n.
RECURSIVE Digits(_)
Digits(n) ==
  IF n < 10 THEN <<DigitChars[n + 1]>>
  ELSE Digits(n \div 10) \o <<DigitChars[(n % 10) + 1]>>
Numeral(n) == IF n < 0 THEN <<"-">> \o Digits(0 - n) ELSE Digits(n)

\* Line 645, int(volume): an optional sign and at least one decimal digit;
\* anything else raises ValueError.
Unsigned(s) == IF s # <<>> /\ s[1] \in {"-", "+"} THEN Tail(s) ELSE s
ParsesAsInt(s) ==
  /\ Unsigned(s) # <<>>
  /\ \A i \in 1..Len(Unsigned(s)) : IsDigit(Unsigned(s)[i])
RECURSIVE ValueOf(_)
ValueOf(b) ==
  IF b = <<>> THEN 0
  ELSE ValueOf(SubSeq(b, 1, Len(b) - 1)) * 10 + DigitOf(b[Len(b)])
IntOf(s) == IF s[1] = "-" THEN 0 - ValueOf(Unsigned(s)) ELSE ValueOf(Unsigned(s))

\* A range check that lets every integer through; C29 does not survive it.
OutOfRangeNever(vol) == FALSE

\* Line 646: vol < 0 or vol > 100.
OutOfRange(vol) == vol < 0 \/ vol > 100

\* No argument was given (volume is None).
NoArg == <<>>

\* handle_volume, lines 627-661, with the argument s.  vol / 100.0 is kept as
\* the number of hundredths.  The audio source of the player is an
\* FFmpegOpusAudio, which has no volume attribute: line 656 is not reached.
Volume(g, s) ==
  /\ CanIssue(g)
  /\ IF ~queues[g].on \/ queues[g].queue = <<>>
     THEN UNCHANGED queues                 \* lines 628-635
     ELSE IF s = NoArg
     THEN UNCHANGED queues                 \* lines 638-641
     ELSE IF ~ParsesAsInt(s)
     THEN UNCHANGED queues                 \* lines 658-659
     ELSE IF OutOfRange(IntOf(s))
     THEN UNCHANGED queues                 \* lines 646-648
     ELSE queues' = [queues EXCEPT ![g].volume = IntOf(s)]
  /\ UNCHANGED <<stale, skip_in_progress, voice, player, files,
                 dirs, tasks, vsu, purge>>
  /\ UNCHANGED <<dedup, unlink, hist>>

\* handle_cleanup, lines 668-690: every file of the guild's directory that the
\* queue in the registry does not list is removed (the caller is an administrator).
Cleanup(g) ==
  /\ CanIssue(g)
  /\ dirs[g]
  /\ files' = [files EXCEPT ![g] =
                  IF queues[g].on THEN @ \cap Elems(queues[g].queue) ELSE {}]
  /\ UNCHANGED <<queues, stale, skip_in_progress, voice, player,
                 dirs, tasks, vsu, purge>>
  /\ UNCHANGED <<dedup, unlink, hist>>

\* ------------------------------------------------------------------- events
\* The audio source of the playing track is exhausted: line 511 / 889 calls
\* _after_track from the player thread.
TrackEnds(g) ==
  /\ player[g].on /\ ~player[g].paused
  /\ tasks' = [tasks EXCEPT ![g] =
                  Add(@, AfterTask(TRUE, IF player[g].sk THEN "skipped" ELSE "natural",
                                   player[g].path))]
  /\ player' = [player EXCEPT ![g] = NoPlayer]
  /\ UNCHANGED <<ops, queues, stale, skip_in_progress, voice, files,
                 dirs, vsu, purge>>
  /\ UNCHANGED <<dedup, unlink, hist>>

\* The voice connection drops independently (the bot is disconnected by a
\* moderator, the voice server goes away).
VoiceDrop(g) ==
  /\ Arrives
  /\ voice[g]
  /\ tasks' = [tasks EXCEPT ![g] = Disconnected(g, @)]
  /\ Disconnect(g)
  /\ UNCHANGED <<queues, stale, skip_in_progress, files, dirs, purge>>
  /\ UNCHANGED <<dedup, unlink, hist>>

\* Lines 779-785: the clean-up for the bot that left its channel.
LeftCleanup(g) ==
  /\ PutPop(g, queues[g], stale[g], tasks[g])
  /\ skip_in_progress' = Discard(g)
  /\ purge' = [purge EXCEPT ![g] = @ \/ dirs[g]]

\* handle_voice_state_update, lines 775-785, for the bot leaving its channel.
VoiceStateUpdate(g) ==
  /\ vsu[g]
  /\ vsu' = [vsu EXCEPT ![g] = FALSE]
  /\ LeftCleanup(g)
  /\ UNCHANGED <<ops, voice, player, files, dirs>>
  /\ UNCHANGED <<dedup, unlink, hist>>

\* A voice-state update: whether the member is the bot, and whether
\* before.channel and after.channel are set.
VoiceEvents == [bot : BOOLEAN, before : BOOLEAN, after : BOOLEAN]

\* A handler that takes any member leaving for the bot; C26 does not survive it.
BotLeftAnyMember(e) == e.before /\ ~e.after

\* Lines 767-775: the update is the bot's and it left a channel for none.
BotLeft(e) ==
  /\ e.bot
  /\ ~(~e.before /\ e.after)
  /\ e.before /\ ~e.after

\* The updates the gateway sends besides the bot leaving: another member
\* joins, moves or leaves; the connected bot has joined or is moved.
OtherEvents ==
  {e \in VoiceEvents : (e.before \/ e.after) /\ ~(e.bot /\ e.before /\ ~e.after)}

\* handle_voice_state_update, lines 764-785, run on such an update.
VoiceStateOther(g, e) ==
  /\ Arrives
  /\ e.bot => voice[g]
  /\ IF BotLeft(e) THEN LeftCleanup(g)
     ELSE UNCHANGED <<queues, stale, tasks, skip_in_progress, purge>>
  /\ UNCHANGED <<voice, player, files, dirs, vsu>>
  /\ UNCHANGED <<dedup, unlink, hist>>

\* _delayed_directory_cleanup, lines 915-927, after the sleep of line 914.
DirectoryCleanup(g) ==
  /\ purge[g]
  /\ purge' = [purge EXCEPT ![g] = FALSE]
  /\ files' = [files EXCEPT ![g] = {}]
  /\ dirs'  = [dirs EXCEPT ![g] = FALSE]
  /\ UNCHANGED <<ops, queues, stale, skip_in_progress, voice, player,
                 tasks, vsu>>
  /\ UNCHANGED <<dedup, unlink, hist>>

\* on_ready, lines 233-241: every server directory is removed and the set of
\* active command ids is cleared.
OnReady ==
  /\ Arrives
  /\ (\E g \in GuildIds : files[g] # {}) \/ active_commands # {}
  /\ files' = [g \in GuildIds |-> {}]
  /\ dirs'  = [g \in GuildIds |-> FALSE]
  /\ active_commands' = {}
  /\ UNCHANGED <<queues, stale, skip_in_progress, voice, player,
                 tasks, vsu, purge, delivered, bodies, inflight, unlink,
                 hist>>

\* ------------------------------------------------- the command wrappers
\* cmd_skip, lines 97-102 (every command wrapper of lines 81-223 has this
\* shape): the framework delivers message m; a delivery whose id is in
\* active_commands returns at once, any other enters the handler body.  The
\* body itself is the handler modelled above, where every command carries a
\* message id of its own; here only its extent in time matters.
Deliver(m) ==
  /\ delivered[m] < MaxDeliveries
  /\ delivered' = [delivered EXCEPT ![m] = @ + 1]
  /\ IF m \in active_commands
     THEN UNCHANGED <<active_commands, bodies, inflight>>
     ELSE /\ active_commands' = active_commands \cup {m}
          /\ bodies'   = [bodies EXCEPT ![m] = @ + 1]
          /\ inflight' = [inflight EXCEPT ![m] = @ + 1]
  /\ UNCHANGED <<queues, stale, skip_in_progress, voice, player,
                 files, dirs, tasks, vsu, purge, ops, unlink, hist>>

\* Lines 103-105: the handler body returns or raises; finally discards the id.
Finish(m) ==
  /\ inflight[m] > 0
  /\ inflight' = [inflight EXCEPT ![m] = @ - 1]
  /\ active_commands' = active_commands \ {m}
  /\ UNCHANGED <<queues, stale, skip_in_progress, voice, player,
                 files, dirs, tasks, vsu, purge, ops, delivered, bodies,
                 unlink, hist>>

\* ------------------------------------------------------- _try_remove_file
\* Line 933: range(5).
Retries == 5

\* No call under way.
NoCall == [pc |-> "idle", path |-> 0, fs |-> {}, locked |-> {}, fs0 |-> {},
           i |-> 0, slept |-> 0, ret |-> FALSE]

\* _try_remove_file(path) is entered with the paths of fs on disk, those of
\* locked held open by another process (os.remove raises PermissionError).
\* History: fs0, the directory at entry; i, iterations begun; slept, sleeps.
Calls ==
  {[NoCall EXCEPT !.pc = "try", !.path = p, !.fs = F, !.fs0 = F, !.locked = K] :
     p \in Paths, F \in SUBSET Paths, K \in SUBSET Paths}

\* A check that takes every path to exist; C17 does not survive it.
ExistsAlways(fs, p) == TRUE

\* Line 935: os.path.exists(path).
Exists(fs, p) == p \in fs

\* Lines 933-939, one iteration up to the return or the sleep.  raced: another
\* process removes the file between lines 935 and 936.
TryRemove(raced) ==
  /\ unlink.pc = "try"
  /\ LET u  == [unlink EXCEPT !.i = @ + 1]
         fs == IF raced THEN unlink.fs \ {unlink.path} ELSE unlink.fs
     IN  IF ~Exists(unlink.fs, unlink.path)
         THEN \* line 937
              /\ ~raced
              /\ unlink' = [u EXCEPT !.pc = "done", !.ret = TRUE]
         ELSE IF unlink.path \notin fs
         THEN \* line 936 raises FileNotFoundError
              unlink' = [u EXCEPT !.pc = "sleep", !.fs = fs]
         ELSE IF unlink.path \in unlink.locked
         THEN \* line 936 raises PermissionError
              unlink' = [u EXCEPT !.pc = "sleep"]
         ELSE \* lines 936-937
              unlink' = [u EXCEPT !.pc = "done", !.ret = TRUE,
                                  !.fs = @ \ {unlink.path}]
  /\ UNCHANGED <<queues, stale, skip_in_progress, voice, player,
                 files, dirs, tasks, vsu, purge, ops, dedup, hist>>

\* A loop that runs one iteration more; C28 does not survive it.
LastTryLate(i) == i >= Retries + 1

\* Line 933: the iteration just run was the last of range(5).
LastTry(i) == i >= Retries

\* Line 939, time.sleep(1), then the next iteration or line 940.
Slept ==
  /\ unlink.pc = "sleep"
  /\ unlink' = IF ~LastTry(unlink.i)
               THEN [unlink EXCEPT !.pc = "try", !.slept = @ + 1]
               ELSE [unlink EXCEPT !.pc = "done", !.slept = @ + 1, !.ret = FALSE]
  /\ UNCHANGED <<queues, stale, skip_in_progress, voice, player,
                 files, dirs, tasks, vsu, purge, ops, dedup, hist>>

\* During a sleep the other process closes a file it held open.
Released(p) ==
  /\ unlink.pc = "sleep" /\ p \in unlink.locked
  /\ unlink' = [unlink EXCEPT !.locked = @ \ {p}]
  /\ UNCHANGED <<queues, stale, skip_in_progress, voice, player,
                 files, dirs, tasks, vsu, purge, ops, dedup, hist>>

\* ------------------------------------------------------------ specification
\* The state after __init__, lines 63-69.
Constructed ==
  /\ queues = [g \in GuildIds |-> NoSession]
  /\ stale  = [g \in GuildIds |-> [k \in StaleIds |-> <<>>]]
  /\ skip_in_progress = {}
  /\ voice  = [g \in GuildIds |-> FALSE]
  /\ player = [g \in GuildIds |-> NoPlayer]
  /\ files  = [g \in GuildIds |-> {}]
  /\ dirs   = [g \in GuildIds |-> FALSE]
  /\ tasks  = [g \in GuildIds |-> EmptyBag]
  /\ vsu    = [g \in GuildIds |-> FALSE]
  /\ purge  = [g \in GuildIds |-> FALSE]
  /\ ops    = 0
  /\ active_commands = {}
  /\ delivered = [m \in MsgIds |-> 0]
  /\ bodies    = [m \in MsgIds |-> 0]
  /\ inflight  = [m \in MsgIds |-> 0]

Init == Constructed /\ unlink = NoCall /\ hist = NoHist

\* The event loop resumes a suspended coroutine of guild g.
RunPlayInsert(g) == \E t \in DOMAIN tasks[g] : PlayInsert(g, t)
RunPlayFailed(g) == \E t \in DOMAIN tasks[g] : PlayFailed(g, t)
RunPlayConnected(g) == \E t \in DOMAIN tasks[g] : PlayConnected(g, t)
RunPlayConnectFailed(g) == \E t \in DOMAIN tasks[g] : PlayConnectFailed(g, t)
RunPlayWait(g) == \E t \in DOMAIN tasks[g] : PlayWait(g, t)
RunSkipSent(g) == \E t \in DOMAIN tasks[g] : SkipSent(g, t)
RunSkipSlept(g) == \E t \in DOMAIN tasks[g] : SkipSlept(g, t)
RunSkipDisc(g) == \E t \in DOMAIN tasks[g] : SkipDisc(g, t)
RunAfterStart(g) == \E t \in DOMAIN tasks[g] : AfterStart(g, t)
RunAfterDisc(g) == \E t \in DOMAIN tasks[g] : AfterDisc(g, t)
RunAfterDiscFailed(g) == \E t \in DOMAIN tasks[g] : AfterDiscFailed(g, t)
RunAfterPlay(g) == \E t \in DOMAIN tasks[g] : AfterPlay(g, t)
RunAudioFails(g) == \E t \in DOMAIN tasks[g] : AudioFails(g, t)

\* One guild; commands arrive at any time, also while handlers are suspended.
Next ==
  \/ \E p \in Paths : PlayStart(1, p)
  \/ \E n \in 0..MaxQueue : SkipStart(1, n)
  \/ Pause(1)
  \/ Resume(1)
  \/ Loop(1)
  \/ Cleanup(1)
  \/ RunPlayInsert(1)
  \/ RunPlayConnected(1)
  \/ RunPlayConnectFailed(1)
  \/ RunPlayWait(1)
  \/ RunSkipSent(1)
  \/ RunSkipSlept(1)
  \/ RunSkipDisc(1)
  \/ RunAfterStart(1)
  \/ RunAfterDisc(1)
  \/ RunAfterPlay(1)
  \/ TrackEnds(1)
  \/ VoiceDrop(1)
  \/ VoiceStateUpdate(1)
  \/ DirectoryCleanup(1)
  \/ OnReady

Spec == Init /\ [][Next]_vars

\* One guild; commands and outside events arrive only when no coroutine of the
\* guild is suspended and no gateway event or cleanup is pending.
SerialNext ==
  \/ Quiet(1) /\ \E p \in Paths : PlayStart(1, p)
  \/ Quiet(1) /\ \E n \in 0..MaxQueue : SkipStart(1, n)
  \/ Quiet(1) /\ Pause(1)
  \/ Quiet(1) /\ Resume(1)
  \/ Quiet(1) /\ Loop(1)
  \/ Quiet(1) /\ Cleanup(1)
  \/ RunPlayInsert(1)
  \/ RunPlayConnected(1)
  \/ RunPlayConnectFailed(1)
  \/ RunPlayWait(1)
  \/ RunSkipSent(1)
  \/ RunSkipSlept(1)
  \/ RunSkipDisc(1)
  \/ RunAfterStart(1)
  \/ RunAfterDisc(1)
  \/ RunAfterPlay(1)
  \/ Quiet(1) /\ TrackEnds(1)
  \/ Quiet(1) /\ VoiceDrop(1)
  \/ VoiceStateUpdate(1)
  \/ DirectoryCleanup(1)
  \/ Quiet(1) /\ OnReady

SerialSpec == Init /\ [][SerialNext]_vars

\* The event loop resumes every continuation whose sleep or await is over.
FairSerialSpec ==
  /\ SerialSpec
  /\ WF_vars(RunAfterStart(1)) /\ WF_vars(RunAfterDisc(1)) /\ WF_vars(RunAfterPlay(1))

\* The same, with the collaborators failing: the download finds nothing,
\* raises or leaves no file, the audio source cannot be created and
\* disconnect() raises.
FaultNext ==
  \/ SerialNext
  \/ Quiet(1) /\ PlayNoResult(1)
  \/ Quiet(1) /\ \E p \in Paths : PlayNoFile(1, p)
  \/ RunPlayFailed(1)
  \/ RunAudioFails(1)
  \/ RunAfterDiscFailed(1)

FaultSpec == Init /\ [][FaultNext]_vars

\* One guild, commands one at a time; voice-state updates of other members and
\* of the bot joining arrive at any time.
VoiceNext ==
  \/ SerialNext
  \/ \E e \in OtherEvents : VoiceStateOther(1, e)

VoiceSpec == Init /\ [][VoiceNext]_vars

\* The gateway event of the bot leaving reaches its handler.
FairVoiceSpec == VoiceSpec /\ WF_vars(VoiceStateUpdate(1))

\* The levels users ask for, and arguments that are no integer.
Levels  == {-1, 0, 7, 50, 100, 101}
NotInts == {<<"x">>, <<"5", "x">>, <<"5", ".", "5">>, <<"-">>}
VolumeArgs == {Numeral(n) : n \in Levels} \cup NotInts \cup {NoArg}

\* One guild, commands one at a time, .volume among them.
VolumeNext ==
  \/ SerialNext
  \/ Quiet(1) /\ \E s \in VolumeArgs : Volume(1, s)

VolumeSpec == Init /\ [][VolumeNext]_vars

\* A command of guild g, issued when no coroutine of g is suspended, or a
\* step of a handler, callback or event of guild g.
GuildStep(g) ==
  \/ Quiet(g) /\ \E p \in Paths : PlayStart(g, p)
  \/ Quiet(g) /\ \E n \in 0..MaxQueue : SkipStart(g, n)
  \/ Quiet(g) /\ Pause(g)
  \/ Quiet(g) /\ Resume(g)
  \/ Quiet(g) /\ Loop(g)
  \/ Quiet(g) /\ Cleanup(g)
  \/ Quiet(g) /\ \E s \in VolumeArgs : Volume(g, s)
  \/ RunPlayInsert(g)
  \/ RunPlayConnected(g)
  \/ RunPlayConnectFailed(g)
  \/ RunPlayWait(g)
  \/ RunSkipSent(g)
  \/ RunSkipSlept(g)
  \/ RunSkipDisc(g)
  \/ RunAfterStart(g)
  \/ RunAfterDisc(g)
  \/ RunAfterPlay(g)
  \/ Quiet(g) /\ TrackEnds(g)
  \/ Quiet(g) /\ VoiceDrop(g)
  \/ VoiceStateUpdate(g)
  \/ DirectoryCleanup(g)

\* Two guilds, each used as the one guild of the serial runs, interleaved
\* in every way.
TwoNext == \E g \in GuildIds : GuildStep(g)

TwoSpec == Init /\ [][TwoNext]_vars

\* _try_remove_file alone: one call, on any path and any directory.
RemoveInit == Constructed /\ unlink \in Calls /\ hist = NoHist

RemoveNext ==
  \/ \E raced \in BOOLEAN : TryRemove(raced)
  \/ Slept
  \/ \E p \in Paths : Released(p)

RemoveSpec == RemoveInit /\ [][RemoveNext]_vars

\* The call is synchronous: nothing keeps the loop of line 933 from its next
\* iteration, nor time.sleep(1) from returning.
FairRemoveSpec ==
  /\ RemoveSpec
  /\ WF_vars(\E raced \in BOOLEAN : TryRemove(raced)) /\ WF_vars(Slept)

\* Line 864 finds no file for the track the continuation would start next.
MissingHead(g) ==
  /\ queues[g].on /\ queues[g].queue # <<>>
  /\ LET q    == queues[g].queue
         loop == queues[g].loop
         q1   == IF PopsHead(g \in skip_in_progress, loop) THEN Tail(q) ELSE q
         f1   == IF RemovesLast(loop, Head(q), q1) THEN files[g] \ {Head(q)}
                 ELSE files[g]
     IN  q1 # <<>> /\ Head(q1) \notin f1

\* One session, play commands arriving at any time between the steps of the
\* continuation callbacks; loop stays disabled, nothing is skipped, no
\* download fails and no track is found without its file.  The tracks
\* enqueued and the tracks started are recorded.
OrderInit == Constructed /\ unlink = NoCall /\ hist = [NoHist EXCEPT !.on = TRUE]

OrderNext ==
  \/ \E p \in Paths : PlayStart(1, p)
  \/ \E t \in DOMAIN tasks[1] : PlayInsert(1, t) /\ Downloaded(1, t.path)
  \/ RunPlayConnected(1)
  \/ RunPlayWait(1)
  \/ \E t \in DOMAIN tasks[1] : AfterStart(1, t) /\ ~MissingHead(1)
  \/ RunAfterDisc(1)
  \/ RunAfterPlay(1)
  \/ TrackEnds(1)
  \/ VoiceStateUpdate(1)

OrderSpec == OrderInit /\ [][OrderNext]_vars

\* The command wrappers alone: deliveries and redeliveries of command messages,
\* handler bodies returning, and on_ready after a gateway reconnect.
DedupNext ==
  \/ \E m \in MsgIds : Deliver(m)
  \/ \E m \in MsgIds : Finish(m)
  \/ OnReady

DedupSpec == Init /\ [][DedupNext]_vars

\* --------------------------------------------------------------- properties
\* A continuation that reaches line 820 with a queue to work on.
Continues(g, t) ==
  /\ AfterStart(g, t)
  /\ queues[g].on /\ t.live /\ queues[g].queue # <<>>

\* C8: in every reachable state, whenever a track is being played or is held
\* paused for a session, the session is in the registry and the track is
\* queue[0] of that session.
C8_PlayingIsHead ==
  \A g \in GuildIds :
    player[g].on =>
      /\ queues[g].on
      /\ queues[g].queue # <<>>
      /\ Head(queues[g].queue) = player[g].path

\* C9: while a continuation callback of a session is suspended between its
\* reads and pops of the queue (lines 820-866) and its use of what it read
\* (lines 881-896), no other callback and no command handler of the session
\* mutates the queue.
C9_Exclusive ==
  [][\A g \in GuildIds : \A t \in DOMAIN tasks[g] :
       (t.k = "after" /\ t.pc = "a_play" /\ t.lst = 0 /\ t \in DOMAIN tasks'[g])
         => queues'[g].queue = queues[g].queue]_vars

\* C10: in every quiescent state (no handler or callback suspended, no gateway
\* event in flight) a session is in the registry iff the bot holds a voice
\* connection for it.
C10_SessionIffVoice ==
  \A g \in GuildIds :
    (Size(tasks[g]) = 0 /\ ~vsu[g]) => (queues[g].on <=> voice[g])

\* The queue after a continuation that does not pop its head: unchanged, or
\* without the head when the file of the head is missing (lines 864-866).
HeadKept(g, q) ==
  \/ queues'[g].queue = q
  \/ Head(q) \notin files[g] /\ queues'[g].queue = Tail(q)

\* The queue after a continuation that pops its head once: the tail, or the
\* tail without its own head when that file is missing (lines 864-866).
HeadPopped(g, q) ==
  \/ queues'[g].queue = Tail(q)
  \/ /\ Tail(q) # <<>> /\ Head(Tail(q)) \notin files[g]
     /\ queues'[g].queue = Tail(Tail(q))

\* C1: the continuation fired by the halt of a partial skip finds the
\* SkipMarker and consumes it, and neither it nor its recursive calls pop a
\* track: the skip and its callback together remove exactly the n tracks the
\* skip popped, entries whose file is missing apart (no double-pop).
C1_NoDoublePop ==
  [][\A g \in GuildIds : \A t \in DOMAIN tasks[g] :
       (Continues(g, t) /\ t.cause = "skip")
         => /\ t.d = 0 => (g \in skip_in_progress /\ g \notin skip_in_progress')
            /\ HeadKept(g, queues[g].queue)]_vars

\* The continuation of guild g returns in this step.
Returns(g, t) ==
  /\ t.k = "after"
  /\ \/ AfterStart(g, t) \/ AfterDisc(g, t) \/ AfterPlay(g, t)
     \/ AfterDiscFailed(g, t) \/ AudioFails(g, t)
  /\ \A u \in DOMAIN tasks'[g] : u.k # "after"

\* The queue q with its first n entries removed, and the paths of the removed
\* entries that no remaining entry shares.
SkipLeft(q, n) == [i \in 1..(Len(q) - n) |-> q[i + n]]
Unshared(q, n) == {q[i] : i \in {j \in 1..n : q[j] \notin Elems(SkipLeft(q, n))}}

\* What C2 promises when the continuation fired by skip(n) on queue q returns.
SkipOutcome(g, q, n) ==
  /\ queues'[g].on /\ queues'[g].queue = SkipLeft(q, n)
  /\ Unshared(q, n) \cap files'[g] = {}
  /\ player'[g].on /\ ~player'[g].paused /\ player'[g].path = Head(SkipLeft(q, n))

\* C2 as stated: for a playing session with queue q and skip(n), 1 <= n < len(q),
\* once handle_skip and the continuation fired by the halt have both run, the
\* queue is q without its first n entries, the unshared files of the removed
\* entries are deleted and the track started is the new queue[0].
C2_SkipScenario ==
  [][\A g \in GuildIds : \A t \in DOMAIN tasks[g] :
       (Returns(g, t) /\ t.cause = "skip" /\ t.n >= 1)
         => SkipOutcome(g, t.q0, t.n)]_vars

\* C2, amended: the same, provided the file of the new queue[0] exists when
\* the continuation runs.
C2_SkipScenarioFileExists ==
  [][\A g \in GuildIds : \A t \in DOMAIN tasks[g] :
       (Returns(g, t) /\ t.cause = "skip" /\ t.n >= 1
          /\ Head(SkipLeft(t.q0, t.n)) \in files[g])
         => SkipOutcome(g, t.q0, t.n)]_vars

\* [A, B, C], skip(2): the continuation is about to start C.
C2_Witness ==
  \E t \in DOMAIN tasks[1] :
    /\ t.k = "after" /\ t.cause = "skip" /\ t.pc = "a_play"
    /\ t.n = 2 /\ Len(t.q0) = 3 /\ queues[1].queue = <<t.q0[3]>>
    /\ t.path = t.q0[3]

\* C3: a continuation run for a track that ended by itself, with no skip
\* issued since it started, and with loop disabled removes exactly that track
\* from the head of the queue.
C3_NaturalPopsOne ==
  [][\A g \in GuildIds : \A t \in DOMAIN tasks[g] :
       (Continues(g, t) /\ t.cause = "natural" /\ t.d = 0 /\ ~queues[g].loop)
         => /\ Head(queues[g].queue) = t.trk
            /\ HeadPopped(g, queues[g].queue)]_vars

\* C4: a natural completion with loop enabled and at least two queued tracks
\* moves the head to the tail and starts the second track.
C4_LoopRotates ==
  [][\A g \in GuildIds : \A t \in DOMAIN tasks[g] :
       (Continues(g, t) /\ t.cause = "natural" /\ t.d = 0 /\ queues[g].loop
          /\ g \notin skip_in_progress /\ Len(queues[g].queue) >= 2
          /\ Elems(queues[g].queue) \subseteq files[g])
         => /\ Head(queues[g].queue) = t.trk
            /\ queues'[g].queue = Append(Tail(queues[g].queue), Head(queues[g].queue))
            /\ \E u \in DOMAIN tasks'[g] :
                 u.pc = "a_play" /\ u.path = queues[g].queue[2]]_vars

\* Skip handlers in flight whose command asked for every track of the queue.
SkipAlls(Tk) == SumOver(Tk, {t \in DOMAIN Tk : t.k = "skip" /\ t.all})

\* C5: when the handler of a skip-all command returns, the queue of its
\* session is empty and the session is absent from the registry.
C5_SkipAllTearsDown ==
  [][\A g \in GuildIds :
       SkipAlls(tasks'[g]) < SkipAlls(tasks[g])
         => ~queues'[g].on /\ queues'[g].queue = <<>>]_vars

\* C7: after a natural completion with loop disabled, in the recursive call
\* that follows a missing file, an entry at the head whose file exists is kept
\* in the queue and is the track started next.
C7_RecoveryStartsNext ==
  [][\A g \in GuildIds : \A t \in DOMAIN tasks[g] :
       (Continues(g, t) /\ t.cause = "natural" /\ t.d > 0
          /\ Head(queues[g].queue) \in files[g])
         => /\ queues'[g].queue = queues[g].queue
            /\ \E u \in DOMAIN tasks'[g] :
                 u.pc = "a_play" /\ u.path = Head(queues[g].queue)]_vars

\* A continuation that has dropped at least one entry whose file is missing.
Recovering(g) == \E t \in DOMAIN tasks[g] : t.k = "after" /\ t.d > 0
Settled(g) ==
  /\ \A t \in DOMAIN tasks[g] : t.k # "after"
  /\ \/ player[g].on
     \/ ~queues[g].on /\ queues[g].queue = <<>> /\ ~voice[g]

C11_NoDeleteWhileQueued ==
  [][OnReady \/ \A g \in GuildIds : \A p \in files[g] \ files'[g] :
       ~(queues'[g].on /\ p \in Elems(queues'[g].queue))]_vars

\* A step of handle_skip or of the continuation callback of guild g.
SkipOrAfterStep(g) ==
  \/ RunSkipSent(g) \/ RunSkipSlept(g) \/ RunSkipDisc(g)
  \/ RunAfterStart(g) \/ RunAfterDisc(g) \/ RunAfterPlay(g)
  \/ RunAfterDiscFailed(g) \/ RunAudioFails(g)

\* C12: a file deleted by handle_skip or by the continuation callback is not
\* the file of a player the voice client still holds, playing or paused.
C12_NoDeleteWhileOpen ==
  [][\A g \in GuildIds : SkipOrAfterStep(g) =>
       \A p \in files[g] \ files'[g] :
         ~(player'[g].on /\ player'[g].path = p)]_vars

\* A continuation run for a track that ended by itself, outermost call.
Natural(t) == t.k = "after" /\ t.cause = "natural" /\ t.d = 0

\* What C13 promises of the two steps of such a continuation with loop enabled:
\* the queue, the files, the registry entry and the connection are kept, and
\* the track that ended is started again.
LoopOutcome(g, t) ==
  /\ Continues(g, t) =>
       /\ Head(queues[g].queue) = t.trk
       /\ queues'[g] = queues[g] /\ files'[g] = files[g] /\ voice'[g]
       /\ \E u \in DOMAIN tasks'[g] : u.pc = "a_play" /\ u.path = t.trk
  /\ AfterPlay(g, t) =>
       /\ queues'[g] = queues[g] /\ files'[g] = files[g] /\ voice'[g]
       /\ player'[g] = Playing(t.trk)

\* C13 as stated: with loop enabled a natural completion keeps the queue, does
\* not delete the file of the completed track, keeps the session registered
\* and starts the track again.
C13_LoopKeeps ==
  [][\A g \in GuildIds : \A t \in DOMAIN tasks[g] :
       (Natural(t) /\ queues[g].on /\ queues[g].loop) => LoopOutcome(g, t)]_vars

\* C13, amended: the same, provided the file of the completed track is still
\* on disk when the continuation runs.
C13_LoopKeepsFileExists ==
  [][\A g \in GuildIds : \A t \in DOMAIN tasks[g] :
       (Natural(t) /\ queues[g].on /\ queues[g].loop /\ t.trk \in files[g])
         => LoopOutcome(g, t)]_vars

\* Queue [A], loop enabled: the continuation is about to start A again.
C13_Witness ==
  \E t \in DOMAIN tasks[1] :
    /\ Natural(t) /\ t.pc = "a_play" /\ t.path = t.trk
    /\ queues[1].loop /\ queues[1].queue = <<t.trk>>

\* C14: the handler body of a command message is entered at most once, however
\* often the message is delivered.
C14_AtMostOnce == \A m \in MsgIds : bodies[m] <= 1

\* C15: a continuation that finds no entry of its session in the registry
\* changes no queue and no registry entry, starts no playback, closes no
\* connection and deletes no file.
C15_AbsentNoOp ==
  [][\A g \in GuildIds : \A t \in DOMAIN tasks[g] :
       (AfterStart(g, t) /\ ~queues[g].on)
         => /\ queues' = queues /\ stale' = stale
            /\ player' = player /\ voice' = voice /\ vsu' = vsu
            /\ files' = files /\ dirs' = dirs
            /\ \A u \in DOMAIN tasks'[g] : u \in DOMAIN tasks[g]]_vars

\* A continuation of a connected client is about to run with its session
\* gone from the registry, files on disk and a track playing.
C15_Witness ==
  \E t \in DOMAIN tasks[1] :
    /\ t.k = "after" /\ t.pc = "a_start" /\ t.live
    /\ ~queues[1].on /\ files[1] # {} /\ voice[1]

\* An exception is raised in this step of the continuation, or was raised
\* earlier in the same callback.
Raised(g, t) ==
  \/ t.err
  \/ AfterPlay(g, t) /\ ~(t.live /\ CanPlay(g))
  \/ AudioFails(g, t)
  \/ AfterDiscFailed(g, t)

\* C16 as stated: a continuation callback in which an exception was raised
\* (the next track failing to start, disconnect failing) returns with its
\* session absent from the registry.
C16_ErrorTearsDown ==
  [][\A g \in GuildIds : \A t \in DOMAIN tasks[g] :
       (Returns(g, t) /\ Raised(g, t)) => ~queues'[g].on]_vars

\* C16, amended: such a callback returns either with its session absent from
\* the registry, or with the session kept and the head of its queue started.
C16_ErrorTearsDownOrStarts ==
  [][\A g \in GuildIds : \A t \in DOMAIN tasks[g] :
       (Returns(g, t) /\ Raised(g, t))
         => \/ ~queues'[g].on
            \/ /\ queues'[g].queue # <<>>
               /\ player'[g] = Playing(Head(queues'[g].queue))]_vars

\* A callback in which a track failed to start is about to start a later one.
C16_Witness ==
  \E t \in DOMAIN tasks[1] :
    /\ t.k = "after" /\ t.err /\ t.pc = "a_play"
    /\ queues[1].on /\ voice[1]


\* C17: _try_remove_file called on a path that does not exist returns True in
\* its first iteration, without a sleep and without touching the directory.
C17_AbsentFirstTry ==
  (unlink.pc = "done" /\ unlink.path \notin unlink.fs0)
    => /\ unlink.ret /\ unlink.i = 1 /\ unlink.slept = 0
       /\ unlink.fs = unlink.fs0

\* The call has returned for a path that was not on disk while other files were.
C17_Witness ==
  /\ unlink.pc = "done" /\ unlink.path \notin unlink.fs0 /\ unlink.fs0 # {}


\* A step in which handle_play finds that its download failed: it starts with
\* no result or an exception, it returns after reporting one, or it finds no
\* file at the path of the download.
DownloadFailed(g) ==
  \/ PlayNoResult(g)
  \/ \E t \in DOMAIN tasks[g] : PlayFailed(g, t)
  \/ \E t \in DOMAIN tasks[g] : PlayInsert(g, t) /\ t.path \notin files[g]

\* C18: a handle_play whose download fails enqueues nothing: the queue of its
\* session is unchanged, no session is created and no playback is started.
C18_FailedNotEnqueued ==
  [][\A g \in GuildIds : DownloadFailed(g) =>
       /\ queues'[g] = queues[g] /\ stale'[g] = stale[g]
       /\ player'[g] = player[g]]_vars

\* A handle_play whose download left no file is about to check for it, with
\* no session in the registry.
C18_Witness ==
  /\ ~queues[1].on
  /\ \E t \in DOMAIN tasks[1] : t.k = "play" /\ t.pc = "p_ins" /\ t.path \notin files[1]


\* The queue an enqueue finds: that of the registered session, or none.
Before(g) == IF queues[g].on THEN queues[g].queue ELSE <<>>

\* The last step of a handle_play that found the queue empty and had to
\* connect first (lines 495-514).
PlayEnds(g, t) == PlayWait(g, t) \/ PlayConnectFailed(g, t)

Connected(g, t) ==
  \/ PlayWait(g, t) /\ t.live
  \/ PlayConnectFailed(g, t) /\ voice[g]

\* The audio-start capability is invoked with path p: the track is started,
\* unless the client is already playing and connection.play raises.
Started(g, p) == player'[g] = IF CanPlay(g) THEN Playing(p) ELSE player[g]

IsPrefix(a, b) == Len(a) <= Len(b) /\ a = SubSeq(b, 1, Len(a))

\* Nothing of the session is left to run: no handler or callback suspended,
\* no gateway event in flight, no track playing.
Over(g) == Size(tasks[g]) = 0 /\ ~vsu[g] /\ ~player[g].on

\* C20: with loop disabled, no skip and no missing file, the tracks started
\* are, in order and each once, the tracks enqueued: at every moment the
\* sequence started is a prefix of the sequence enqueued, and once nothing is
\* left to run every enqueued track has been started.
C20_InsertionOrder ==
  /\ IsPrefix(hist.started, hist.enq)
  /\ Over(1) => hist.started = hist.enq


\* C21: a continuation that finds its session registered and its voice
\* connection invalid removes the session from the registry and returns: the
\* queue list is left as it was for whoever still holds it, no track is
\* started, no file is deleted, no connection is closed and no further step of
\* the callback follows.
C21_InvalidTearsDown ==
  [][\A g \in GuildIds : \A t \in DOMAIN tasks[g] :
       (AfterStart(g, t) /\ queues[g].on /\ ~t.live)
         => /\ ~queues'[g].on
            /\ Size(tasks'[g]) = Size(tasks[g]) - 1
            /\ Holds0(Del(tasks[g], t))
                 => \E k \in StaleIds : stale'[g][k] = queues[g].queue
            /\ player' = player /\ voice' = voice /\ vsu' = vsu
            /\ files' = files /\ dirs' = dirs]_vars

\* A continuation whose connection is gone is about to run with its session
\* registered and tracks queued.
C21_Witness ==
  \E t \in DOMAIN tasks[1] :
    /\ t.k = "after" /\ t.pc = "a_start" /\ ~t.live
    /\ queues[1].on /\ Len(queues[1].queue) >= 2


\* handle_skip reaches line 390 with a voice client: a partial skip of
\* t.n >= 1 tracks of the registered queue.
PartialSkip(g, t) ==
  /\ SkipSent(g, t) /\ voice[g]
  /\ t.lst = 0 /\ t.n >= 1 /\ t.n < Len(queues[g].queue)

\* C22: a partial skip of a session whose player is playing or paused halts
\* that player, so that the removed head is no longer played or held paused,
\* and a continuation callback follows that will start the new head.
C22_PartialSkipHalts ==
  [][\A g \in GuildIds : \A t \in DOMAIN tasks[g] :
       (PartialSkip(g, t) /\ player[g].on)
         => /\ ~player'[g].on
            /\ \E u \in DOMAIN tasks'[g] :
                 u.k = "after" /\ u.cause = "skip" /\ u.pc = "a_start"]_vars


\* C23: a partial skip deletes the file of a removed entry exactly when no
\* entry left in the queue shares its path; every other file is kept.
C23_SharedFileKept ==
  [][\A g \in GuildIds : \A t \in DOMAIN tasks[g] :
       (SkipSent(g, t) /\ voice[g] /\ t.n < Len(ListOf(g, t.lst)))
         => files'[g] = files[g] \ Unshared(ListOf(g, t.lst), t.n)]_vars

\* A skip of one track is about to run on a queue whose first two entries
\* share a path, ahead of a third with a path of its own, all on disk.
C23_Witness ==
  \E t \in DOMAIN tasks[1] :
    /\ t.k = "skip" /\ t.pc = "s_sent" /\ t.lst = 0 /\ t.n = 1 /\ voice[1]
    /\ Len(queues[1].queue) = 3
    /\ queues[1].queue[1] = queues[1].queue[2]
    /\ queues[1].queue[3] # queues[1].queue[1]
    /\ Elems(queues[1].queue) \subseteq files[1]


\* The handler of a skip that took the branch of line 364 returns (line 385).
FullSkipReturns(g, t) ==
  /\ t.k = "skip"
  /\ SkipDisc(g, t) \/ (SkipSlept(g, t) /\ ~t.live)

\* Files a suspended handler or callback will remove when it resumes.
Scheduled(Tk) == UNION {u.rm : u \in DOMAIN Tk}

Pending(g) == \E t \in DOMAIN tasks[g] : t.k = "after"

\* C25: the skip marker does not outlive its session: when the guild has no
\* session in the registry, no continuation is pending and no voice-state
\* event of the bot leaving is waiting for its handler, the marker is not set.
C25_MarkerWithinSession ==
  \A g \in GuildIds :
    (~queues[g].on /\ ~Pending(g) /\ ~vsu[g]) => g \notin skip_in_progress

\* What the voice-state handler may touch of guild g's session.
SessionState(g) == <<queues[g], stale[g], g \in skip_in_progress>>

\* C26: the handler run for the bot leaving its channel removes the session
\* and clears the skip marker, whatever the queue, and every such update is
\* handled; an update of another member or of the bot joining or moving
\* changes no session state.
C26_VoiceStateUpdate ==
  /\ [][/\ VoiceStateUpdate(1) => ~queues'[1].on /\ 1 \notin skip_in_progress'
        /\ \A e \in OtherEvents :
             VoiceStateOther(1, e)
               => SessionState(1)' = SessionState(1) /\ tasks' = tasks]_vars
  /\ vsu[1] ~> (~vsu[1] /\ ~queues[1].on /\ 1 \notin skip_in_progress)

\* The bot left while a session with two queued tracks has the marker set.
C26_Witness ==
  /\ vsu[1] /\ queues[1].on /\ Len(queues[1].queue) >= 2
  /\ 1 \in skip_in_progress

\* C29: the volume of a session is always between 0 and 100 hundredths;
\* .volume with the numeral of an integer n of 0..100 sets the volume of the
\* guild's session to n hundredths and leaves its queue and loop flag alone;
\* with the numeral of an integer outside 0..100, or with an argument that is
\* no integer, it leaves volume, queue and loop flag unchanged.
C29_VolumeInRange ==
  /\ [](\A g \in GuildIds : queues[g].on => queues[g].volume \in 0..100)
  /\ [][/\ \A n \in Levels :
             Volume(1, Numeral(n))
               => IF n \in 0..100
                  THEN queues[1].on
                         => queues' = [queues EXCEPT ![1].volume = n]
                  ELSE queues' = queues
        /\ \A s \in NotInts : Volume(1, s) => queues' = queues]_vars

\* A session plays at half volume with two tracks queued.
C29_Witness ==
  queues[1].on /\ queues[1].volume = 50 /\ Len(queues[1].queue) = 2

\* C27: a step of a command handler, callback or event handler of guild g
\* leaves the registry entry (membership, queue, loop flag, volume) and the
\* skip marker of every other guild as they were.
C27_Independent ==
  [][\A g \in GuildIds :
       GuildStep(g)
         => \A h \in GuildIds \ {g} :
              /\ queues'[h] = queues[h]
              /\ (h \in skip_in_progress') = (h \in skip_in_progress)]_vars

\* A continuation of guild 1 is about to run while guild 2 has a session with
\* a track queued and its skip marker set.
C27_Witness ==
  /\ \E t \in DOMAIN tasks[1] : t.k = "after" /\ t.pc = "a_start"
  /\ queues[2].on /\ queues[2].queue # <<>> /\ 2 \in skip_in_progress

\* C28: _try_remove_file returns, after at most 5 attempts; it returns False
\* only after 5 attempts that all raised, and it does so when the file is
\* there and locked throughout; an attempt that succeeds ends the call with
\* True, and a call that has returned makes no further attempt.
C28_BoundedRetries ==
  /\ <>(unlink.pc = "done")
  /\ [](unlink.i <= Retries)
  /\ []((unlink.pc = "done" /\ ~unlink.ret)
          => unlink.i = Retries /\ unlink.slept = Retries)
  /\ []((unlink.pc = "done" /\ unlink.path \in unlink.fs
                             /\ unlink.path \in unlink.locked)
          => ~unlink.ret)
  /\ [][/\ (unlink.pc = "try" /\ unlink'.fs # unlink.fs /\ unlink'.pc = "done")
             => unlink'.ret
        /\ unlink.pc = "done" => unlink' = unlink]_vars

\* The call returned False for a file that stayed locked through 5 attempts.
C28_Witness ==
  /\ unlink.pc = "done" /\ ~unlink.ret /\ unlink.i = Retries
  /\ unlink.path \in unlink.fs /\ unlink.path \in unlink.locked

\* A step of the continuation t of guild g.
AfterStep(g, t) == AfterStart(g, t) \/ AfterDisc(g, t) \/ AfterPlay(g, t)

\* C30: a continuation that was pending when its session was popped from the
\* registry leaves a session registered since then as it is: still
\* registered, queue, loop flag and volume unchanged.
C30_LateCallbackHarmless ==
  [][\A g \in GuildIds : \A t \in DOMAIN tasks[g] :
       (t.k = "after" /\ t.gone /\ queues[g].on /\ AfterStep(g, t))
         => queues'[g] = queues[g]]_vars

\* C31: no session is stuck: whenever no handler or callback of the guild is
\* suspended and no gateway event or cleanup is pending, a registered session
\* with a non-empty queue has the head of its queue in the player, playing or
\* paused.
C31_NoStuckSession ==
  (Quiet(1) /\ queues[1].on /\ queues[1].queue # <<>>)
    => (player[1].on /\ player[1].path = Head(queues[1].queue))

=============================================================================
